---- MODULE Spec2Model ----
(***************************************************************************)
(* Sequencer recovery (packages/pds/src/scripts/sequencer-recovery):       *)
(* the Recoverer pages through the sequencer's event log, enqueues one     *)
(* task per commit / account-deletion event on a per-account queue, and    *)
(* each task rebuilds the account's actor store.                           *)
(*                                                                         *)
(* recoverer.ts is modelled from its source.  UserQueues, the Sequencer    *)
(* and the ActorStore, which recoverer.ts imports, are modelled from their *)
(* contracts (specification sections 4.1, 4.2, 4.4, 4.5 and 6).            *)
(***************************************************************************)
EXTENDS Integers, Sequences, FiniteSets, TLC

\* ------------------------------------------------------------------ bounds
MaxConcurrency == 2      \* opts.concurrency ranges over 1..MaxConcurrency
MaxFaults == 1           \* injected I/O failures (transaction, rm) per behaviour
MaxCrashes == 1          \* process crashes followed by a restart
MaxTasks == 6            \* no page is fetched once this many tasks were enqueued
Limit == 2               \* page size of requestSeqRange (5000 in the source)
LowWater == 1            \* loaded-task count at which onEmpty() resolves

\* ------------------------------------------------------------ value spaces
Dids == {"A", "B"}
Paths == {"X", "Y"}              \* collection/rkey of a record
NoCid == "none"                  \* op.cid absent / no record at a path
Null == 0                        \* evt.since === null
NoRev == 0                       \* repository without a root

\* Blobs referenced by the record stored in the block with a given cid
\* (what prepareCreate / prepareUpdate extract from the decoded record).
RecordBlobs(cid) ==
  CASE cid = "c1" -> {"b1"}
    [] cid = "c3" -> {"b1", "b2"}
    [] OTHER -> {}

Blobs == {"b1", "b2"}

\* ------------------------------------------------------------------ events
Op(action, path, cid) == [action |-> action, path |-> path, cid |-> cid]

\* SeqEvt of type 'commit' (CommitEvt: repo, rev, since, commit, ops, blocks).
\* blocks is the set of cids in the CAR bundle, undecodable the ones whose
\* bytes are not valid CBOR.
CommitEvt(seq, did, rev, since, ops, blocks, undecodable) ==
  [seq |-> seq, type |-> "commit", did |-> did, status |-> "none",
   rev |-> rev, since |-> since, ops |-> ops, blocks |-> blocks,
   undecodable |-> undecodable]

\* SeqEvt of type 'account' (AccountEvt: did, status).
AccountEvt(seq, did, status) ==
  [seq |-> seq, type |-> "account", did |-> did, status |-> status,
   rev |-> NoRev, since |-> Null, ops |-> <<>>, blocks |-> {},
   undecodable |-> {}]

NoEvt == AccountEvt(0, "A", "none")

\* The event logs the recovery is run against.
Logs ==
  { \* empty log
    <<>>,
    \* genesis, then delete of the created record
    << CommitEvt(1, "A", 1, Null, <<Op("create", "X", "c2")>>, {"c2"}, {}),
       CommitEvt(2, "A", 2, 1, <<Op("delete", "X", NoCid)>>, {}, {}) >>,
    \* two accounts, records with blobs, create / update / delete
    << CommitEvt(1, "A", 1, Null, <<Op("create", "X", "c1")>>, {"c1"}, {}),
       CommitEvt(2, "B", 1, Null, <<Op("create", "Y", "c3")>>, {"c3"}, {}),
       CommitEvt(3, "A", 2, 1, <<Op("update", "X", "c2"),
                                 Op("create", "Y", "c1")>>, {"c1", "c2"}, {}),
       CommitEvt(4, "B", 2, 1, <<Op("delete", "Y", NoCid)>>, {}, {}) >>,
    \* account deletion after commits, other account statuses
    << CommitEvt(1, "A", 1, Null, <<Op("create", "X", "c1")>>, {"c1"}, {}),
       CommitEvt(2, "A", 2, 1, <<Op("create", "Y", "c2")>>, {"c2"}, {}),
       AccountEvt(3, "B", "deactivated"),
       AccountEvt(4, "A", "deleted") >>,
    \* deletion of an account without commits, interleaved with another
    << AccountEvt(1, "B", "deleted"),
       CommitEvt(2, "A", 1, Null, <<Op("create", "X", "c3")>>, {"c3"}, {}),
       CommitEvt(3, "B", 1, Null, <<Op("create", "X", "c2")>>, {"c2"}, {}),
       CommitEvt(4, "A", 2, 1, <<Op("update", "X", "c1")>>, {"c1"}, {}) >>,
    \* duplicate and out-of-order revisions, genesis delivered twice
    << CommitEvt(1, "A", 2, Null, <<Op("create", "X", "c1")>>, {"c1"}, {}),
       CommitEvt(2, "A", 2, Null, <<Op("create", "X", "c1")>>, {"c1"}, {}),
       CommitEvt(3, "A", 1, Null, <<Op("create", "Y", "c2")>>, {"c2"}, {}),
       CommitEvt(4, "A", 3, 2, <<Op("delete", "X", NoCid)>>, {}, {}) >>,
    \* malformed data: op without cid, block missing from the bundle,
    \* undecodable block
    << CommitEvt(1, "A", 1, Null, <<Op("create", "X", "c1"),
                                    Op("create", "Y", "c2")>>, {"c1"}, {}),
       CommitEvt(2, "A", 2, 1, <<Op("update", "X", NoCid),
                                 Op("delete", "X", NoCid)>>, {}, {}),
       CommitEvt(3, "B", 1, Null, <<Op("create", "X", "c2"),
                                    Op("create", "Y", "c3")>>,
                 {"c2", "c3"}, {"c3"}) >>,
    \* the same write set in two successive commits, and no-op account events
    << CommitEvt(1, "A", 1, Null, <<Op("create", "X", "c1")>>, {"c1"}, {}),
       CommitEvt(2, "A", 2, 1, <<Op("update", "X", "c3")>>, {"c3"}, {}),
       CommitEvt(3, "A", 3, 2, <<Op("update", "X", "c3")>>, {"c3"}, {}),
       AccountEvt(4, "B", "takendown") >>,
    \* commit for an account whose repository was never created
    << CommitEvt(1, "B", 2, 1, <<Op("create", "X", "c2")>>, {"c2"}, {}),
       CommitEvt(2, "A", 1, Null, <<Op("create", "X", "c2")>>, {"c2"}, {}),
       CommitEvt(3, "B", 3, 2, <<Op("create", "Y", "c2")>>, {"c2"}, {}) >> }

\* ------------------------------------------------------ parseCommitEvt
\* true when cborToLexRecord throws for some create/update op whose block is
\* present: the Promise.all over evt.ops rejects and so does parseCommitEvt.
ParseThrows(evt) ==
  \E i \in 1..Len(evt.ops) :
    /\ evt.ops[i].action # "delete"
    /\ evt.ops[i].cid # NoCid
    /\ evt.ops[i].cid \in evt.blocks
    /\ evt.ops[i].cid \in evt.undecodable

OpResolvesAll(evt, op) == TRUE

\* an op that maps to undefined: no cid, or no bytes for the cid in the CAR
OpResolves(evt, op) ==
  \/ op.action = "delete"
  \/ op.cid # NoCid /\ op.cid \in evt.blocks

\* prepareDelete / prepareCreate / prepareUpdate
PrepareWrite(op) ==
  [action |-> op.action, path |-> op.path,
   cid |-> IF op.action = "delete" THEN NoCid ELSE op.cid,
   blobs |-> IF op.action = "delete" THEN {} ELSE RecordBlobs(op.cid)]

MapPrepare(ops) == [i \in 1..Len(ops) |-> PrepareWrite(ops[i])]

ParseWritesNoDelete(evt) ==
  MapPrepare(SelectSeq(evt.ops, LAMBDA op : op.action # "delete"
                                            /\ OpResolves(evt, op)))

\* writesUnfiltered.filter((w) => w !== undefined)
ParseWrites(evt) ==
  MapPrepare(SelectSeq(evt.ops, LAMBDA op : OpResolves(evt, op)))

\* ------------------------------------------------------------ actor store
EmptyIndex == [p \in Paths |-> NoCid]
NoBlobRows == [b \in Blobs |-> 0]

\* No actor store on disk for the account.
NoRepo ==
  [exists |-> FALSE, key |-> 0, rev |-> NoRev, firstRev |-> NoRev,
   blocks |-> {}, index |-> EmptyIndex, indexedRev |-> NoRev,
   recordBlob |-> {}, blob |-> NoBlobRows, blobRev |-> NoRev]

\* actorStore.create(did, keypair): directory, empty database, signing key.
CreatedRepo(key) == [NoRepo EXCEPT !.exists = TRUE, !.key = key]

\* repo.storage.applyCommit(commit): put commit.newBlocks, update the root.
ApplyCommit(r, evt) ==
  [r EXCEPT !.blocks = r.blocks \cup evt.blocks,
            !.rev = evt.rev,
            !.firstRev = IF r.firstRev = NoRev THEN evt.rev ELSE r.firstRev]

RECURSIVE IndexFold(_, _)
IndexFold(index, writes) ==
  IF writes = <<>> THEN index
  ELSE LET w == Head(writes) IN
       IndexFold([index EXCEPT ![w.path] = w.cid], Tail(writes))

\* repo.indexWrites(writes, rev): index creates and updates, drop deletes.
IndexWrites(r, writes, rev) ==
  [r EXCEPT !.index = IndexFold(r.index, writes), !.indexedRev = rev]

WriteBlobs(writes) ==
  UNION { writes[i].blobs : i \in 1..Len(writes) }

\* repo.blob.deleteDereferencedBlobs(writes, true): drop the association
\* rows of deleted and updated records, then the metadata rows of blobs that
\* no remaining row and no new write points to.
DeleteDereferencedBlobs(r, writes) ==
  LET uris == { writes[i].path : i \in { j \in 1..Len(writes) :
                                   writes[j].action \in {"delete", "update"} } }
      deleted == { row \in r.recordBlob : row[2] \in uris }
      kept == r.recordBlob \ deleted
      deletedCids == { row[1] : row \in deleted }
      duplicate == { row[1] : row \in kept }
      toDelete == deletedCids \ (WriteBlobs(writes) \cup duplicate)
  IN [r EXCEPT !.recordBlob = kept,
               !.blob = [b \in Blobs |-> IF b \in toDelete THEN 0
                                         ELSE r.blob[b]]]

InsertBlobOverwrite(blob, blobCid, now) == [blob EXCEPT ![blobCid] = now]

\* insertInto('blob') ... onConflict doNothing: an existing row is kept
InsertBlob(blob, blobCid, now) ==
  [blob EXCEPT ![blobCid] = IF blob[blobCid] = 0 THEN now ELSE blob[blobCid]]

\* the for-loops of trackBlobs over the create/update writes and their blobs:
\* one record_blob row (key blobCid, recordUri) and one blob row (key cid)
\* per referenced blob, conflicts ignored
UpsertBlobs(r, writes, now, rev) ==
  LET refs == { <<b, writes[i].path>> :
                 i \in 1..Len(writes), b \in Blobs } 
      rows == { x \in refs : \E i \in 1..Len(writes) :
                  /\ writes[i].action \in {"create", "update"}
                  /\ writes[i].path = x[2]
                  /\ x[1] \in writes[i].blobs }
      cids == { x[1] : x \in rows }
  IN [r EXCEPT !.recordBlob = r.recordBlob \cup rows,
               !.blob = [b \in Blobs |-> IF b \in cids
                                         THEN InsertBlob(r.blob, b, now)[b]
                                         ELSE r.blob[b]],
               !.blobRev = rev]

\* ------------------------------------------------------------------- state
VARIABLES
  log,          \* the sequencer's event log (immutable)
  inclusive,    \* whether requestSeqRange returns the event at earliestSeq
  concurrency,  \* opts.concurrency
  startCursor,  \* opts.cursor of the running Recoverer
  cursor,       \* Recoverer.cursor
  pc,           \* position of run()
  page,         \* the page being dispatched by loadNextPage
  pos,          \* index of the next event of page to dispatch
  done,         \* local variable done of run()
  queue,        \* per account: tasks waiting, in enqueue order
  running,      \* tasks in flight
  nextTid,      \* number of tasks enqueued so far, plus one
  repo,         \* per account: the actor store on disk
  acct,         \* per account: account-manager record present
  keyGen,       \* per account: signing keypairs generated
  firstError,   \* first task error observed by the queue
  nfailed,      \* tasks of this run that raised an error
  runError,     \* error run() rejected with
  faults,       \* injected I/O failures so far
  crashes,      \* crashes so far
  applyCount,   \* per event: committed (non-skipped) applications
  skipCount,    \* per event: applications skipped by the revision gate
  completed,    \* seqs of the events whose task completed in this run
  lastDone      \* per account: event of the last commit task that succeeded

vars == <<log, inclusive, concurrency, startCursor, cursor, pc, page, pos,
          done, queue, running, nextTid, repo, acct, keyGen, firstError,
          nfailed, runError, faults, crashes, applyCount, skipCount, completed,
          lastDone>>

orchVars == <<startCursor, cursor, pc, page, pos, done>>
storeVars == <<repo, acct, keyGen, applyCount, skipCount, lastDone>>
envVars == <<log, inclusive, concurrency>>

NoError ==
  [did |-> "none", cause |-> "none", tid |-> 0, pending |-> {}, others |-> {}]

MaxSeq == 4
Seqs == 1..MaxSeq

\* ------------------------------------------------------------- UserQueues
RECURSIVE SumLen(_, _)
SumLen(q, S) ==
  IF S = {} THEN 0
  ELSE LET d == CHOOSE x \in S : TRUE IN Len(q[d]) + SumLen(q, S \ {d})

\* loaded tasks: queued + running
Loaded == Cardinality(running) + SumLen(queue, Dids)

KeyRunning(run, key) == \E t \in run : t.key = key

QueueConcurrencyOff == concurrency + 1

\* new UserQueues(opts.concurrency): the ceiling the queue is built with
QueueConcurrency == concurrency

\* a task of key did may be started
CanStart(q, run, did) ==
  /\ ~KeyRunning(run, did)
  /\ Cardinality(run) < QueueConcurrency

TaskKeyBySeq(evt) == IF evt.seq % 2 = 1 THEN "A" ELSE "B"

\* const did = evt.repo (evt.did): the key the task is enqueued under
TaskKey(evt) == evt.did

NewTask(tid, evt, kind) ==
  [tid |-> tid, did |-> evt.did, key |-> TaskKey(evt), kind |-> kind,
   evt |-> evt, pc |-> "begin",
   genesis |-> FALSE, pending |-> {}, w |-> NoRepo]

\* addToUser(did, task): FIFO per key; the task starts at once when its key
\* is idle and the concurrency ceiling is not reached.
AddToUser(q, run, task) ==
  IF q[task.key] = <<>> /\ CanStart(q, run, task.key)
  THEN [q |-> q, run |-> run \cup {task}]
  ELSE [q |-> [q EXCEPT ![task.key] = Append(@, task)], run |-> run]

\* ------------------------------------------------------------- Sequencer
Min(a, b) == IF a < b THEN a ELSE b
Max(a, b) == IF a > b THEN a ELSE b

\* requestSeqRange({ earliestSeq, limit }): the next events in seq order.
RequestSeqRange(lg, earliestSeq, limit, incl) ==
  LET lo == IF incl THEN Max(earliestSeq, 1) ELSE earliestSeq + 1
      hi == Min(lo + limit - 1, Len(lg))
  IN SubSeq(lg, lo, hi)

\* -------------------------------------------------------------------- Init
Init ==
  /\ log \in Logs
  /\ inclusive \in BOOLEAN
  /\ concurrency \in 1..MaxConcurrency
  /\ startCursor = 0
  /\ cursor = 0
  /\ pc = "Loading"
  /\ page = <<>>
  /\ pos = 1
  /\ done = FALSE
  /\ queue = [d \in Dids |-> <<>>]
  /\ running = {}
  /\ nextTid = 1
  /\ repo = [d \in Dids |-> NoRepo]
  /\ acct = [d \in Dids |-> TRUE]
  /\ keyGen = [d \in Dids |-> 0]
  /\ firstError = NoError
  /\ nfailed = 0
  /\ runError = NoError
  /\ faults = 0
  /\ crashes = 0
  /\ applyCount = [n \in Seqs |-> 0]
  /\ skipCount = [n \in Seqs |-> 0]
  /\ completed = {}
  /\ lastDone = [d \in Dids |-> NoEvt]

\* ------------------------------------------------------------ Recoverer.run
\* loadNextPage: await requestSeqRange
Fetch ==
  /\ pc = "Loading"
  /\ nextTid <= MaxTasks
  /\ page' = RequestSeqRange(log, cursor, Limit, inclusive)
  /\ pos' = 1
  /\ pc' = "Dispatching"
  /\ UNCHANGED <<envVars, startCursor, cursor, done, queue, running, nextTid,
                 storeVars, firstError, nfailed, runError, faults, crashes,
                 completed>>

\* processEvent: which task, if any, the event is given
TaskKind(evt) ==
  IF evt.type = "account" /\ evt.status = "deleted" THEN "delete"
  ELSE IF evt.type = "commit" THEN "commit"
  ELSE "none"

\* one iteration of page.forEach((evt) => this.processEvent(evt))
Dispatch ==
  /\ pc = "Dispatching"
  /\ pos <= Len(page)
  /\ LET evt == page[pos]
         kind == TaskKind(evt)
         res == AddToUser(queue, running, NewTask(nextTid, evt, kind))
     IN IF kind = "none"
        THEN UNCHANGED <<queue, running, nextTid>>
        ELSE /\ queue' = res.q
             /\ running' = res.run
             /\ nextTid' = nextTid + 1
  /\ pos' = pos + 1
  /\ UNCHANGED <<envVars, startCursor, cursor, pc, page, done, storeVars,
                 firstError, nfailed, runError, faults, crashes, completed>>

PageCursorKeep(pg, cur) == cur

PageCursorFirst(pg, cur) == IF pg = <<>> THEN cur ELSE pg[1].seq

\* the cursor loadNextPage leaves behind
PageCursor(pg, cur) == IF pg = <<>> THEN cur ELSE pg[Len(pg)].seq

\* end of loadNextPage: empty page => true, else advance the cursor
EndPage ==
  /\ pc = "Dispatching"
  /\ pos > Len(page)
  /\ cursor' = PageCursor(page, cursor)
  /\ done' = (page = <<>>)
  /\ pc' = "Draining"
  /\ page' = <<>>
  /\ pos' = 1
  /\ UNCHANGED <<envVars, startCursor, queue, running, nextTid, storeVars,
                 firstError, nfailed, runError, faults, crashes, completed>>

\* queues.onEmpty() resolves at the low-water mark
OnEmpty == Loaded <= LowWater

\* run() awaits onEmpty() after every page: fetching pauses whenever more
\* tasks than the low-water mark are loaded.  Neither the Recoverer nor the
\* queue it constructs is given any other mark.
HighWater == LowWater

DrainNoWait ==
  /\ pc = "Draining"
  /\ pc' = IF done THEN "Flushing" ELSE "Loading"
  /\ UNCHANGED <<envVars, startCursor, cursor, page, pos, done, queue,
                 running, nextTid, storeVars, firstError, nfailed, runError,
                 faults, crashes, completed>>

\* await this.queues.onEmpty(), then the loop test
Drain ==
  /\ pc = "Draining"
  /\ OnEmpty
  /\ pc' = IF done THEN "Flushing" ELSE "Loading"
  /\ UNCHANGED <<envVars, startCursor, cursor, page, pos, done, queue,
                 running, nextTid, storeVars, firstError, nfailed, runError,
                 faults, crashes, completed>>

FlushSwallow ==
  /\ pc = "Flushing"
  /\ Loaded = 0
  /\ pc' = "Done"
  /\ runError' = NoError
  /\ UNCHANGED <<envVars, startCursor, cursor, page, pos, done, queue,
                 running, nextTid, storeVars, firstError, nfailed, faults,
                 crashes, completed>>

\* await this.queues.processAll(): resolves when nothing is loaded, rejects
\* with the first task error
Flush ==
  /\ pc = "Flushing"
  /\ Loaded = 0
  /\ pc' = IF firstError = NoError THEN "Done" ELSE "Failed"
  /\ runError' = firstError
  /\ UNCHANGED <<envVars, startCursor, cursor, page, pos, done, queue,
                 running, nextTid, storeVars, firstError, nfailed, faults,
                 crashes, completed>>

\* ------------------------------------------------------------------ tasks
\* tasks run between the awaits of run(), never inside the synchronous forEach
TasksMayRun == pc \in {"Loading", "Draining", "Flushing"}

\* the queue starts the next waiting task of an idle key
StartTask(d) ==
  /\ TasksMayRun
  /\ queue[d] # <<>>
  /\ CanStart(queue, running, d)
  /\ running' = running \cup {Head(queue[d])}
  /\ queue' = [queue EXCEPT ![d] = Tail(@)]
  /\ UNCHANGED <<envVars, orchVars, nextTid, storeVars, firstError, nfailed,
                 runError, faults, crashes, completed>>

\* the task's promise resolves
Resolve(t) ==
  /\ running' = running \ {t}
  /\ completed' = completed \cup {t.evt.seq}
  /\ UNCHANGED <<firstError, nfailed>>

RejectAbortAll(t, cause) ==
  /\ running' = {}
  /\ nfailed' = nfailed + 1
  /\ firstError' = IF firstError = NoError
                   THEN [did |-> t.did, cause |-> cause, tid |-> t.tid,
                         pending |-> t.pending,
                         others |-> { u.evt.seq : u \in running \ {t} }]
                   ELSE firstError
  /\ UNCHANGED completed

\* catch (err) { console.log('DID: ', did); throw err }: the error, the
\* account logged with it, the calls of the transaction still pending and
\* the events whose tasks were in flight at that moment
Reject(t, cause) ==
  /\ running' = running \ {t}
  /\ nfailed' = nfailed + 1
  /\ firstError' = IF firstError = NoError
                   THEN [did |-> t.did, cause |-> cause, tid |-> t.tid,
                         pending |-> t.pending,
                         others |-> { u.evt.seq : u \in running \ {t} }]
                   ELSE firstError
  /\ UNCHANGED completed

Step(t, u) == running' = (running \ {t}) \cup {u}

TxnStepsNoIndex == {"applyCommit", "deref", "upsert"}

\* the writes of the three calls inside actorStore.transact (processCommit);
\* trackBlobs is its two phases
TxnSteps == {"applyCommit", "indexWrites", "deref", "upsert"}

\* the three calls inside actorStore.transact (processRepoCreation)
GenesisSteps == {"applyCommit", "indexWrites", "processWriteBlobs"}

\* processCommit task: parseCommitEvt, then genesis or transaction
BeginCommit(t) ==
  /\ TasksMayRun
  /\ t.kind = "commit" /\ t.pc = "begin"
  /\ IF ParseThrows(t.evt)
     THEN Reject(t, "parse")
     ELSE /\ Step(t, [t EXCEPT !.pc =
                IF t.evt.since = Null /\ ~repo[t.did].exists
                THEN "create" ELSE "txn"])
          /\ UNCHANGED <<firstError, nfailed, completed>>
  /\ UNCHANGED <<envVars, orchVars, queue, nextTid, storeVars, runError,
                 faults, crashes>>

\* processRepoCreation: Secp256k1Keypair.create, actorStore.create, and the
\* transaction is opened
CreateRepo(t) ==
  /\ TasksMayRun
  /\ t.kind = "commit" /\ t.pc = "create"
  /\ keyGen' = [keyGen EXCEPT ![t.did] = @ + 1]
  /\ IF repo[t.did].exists
     THEN /\ Reject(t, "exists")
          /\ UNCHANGED repo
     ELSE /\ repo' = [repo EXCEPT ![t.did] = CreatedRepo(keyGen'[t.did])]
          /\ Step(t, [t EXCEPT !.pc = "steps", !.genesis = TRUE,
                               !.pending = GenesisSteps,
                               !.w = repo'[t.did]])
          /\ UNCHANGED <<firstError, nfailed, completed>>
  /\ UNCHANGED <<envVars, orchVars, queue, nextTid, acct, applyCount,
                 skipCount, lastDone, runError, faults, crashes>>

RevGateStrict(rootRev, evtRev) == rootRev > evtRev

RevGateOff(rootRev, evtRev) == FALSE

\* if (root.rev >= evt.rev) return
RevGate(rootRev, evtRev) == rootRev >= evtRev

\* actorStore.transact(did, ...): open the store, getRootDetailed, the gate
TxnBegin(t) ==
  /\ TasksMayRun
  /\ t.kind = "commit" /\ t.pc = "txn"
  /\ LET r == repo[t.did] IN
     IF ~r.exists THEN /\ Reject(t, "notfound")
                       /\ UNCHANGED <<lastDone, skipCount>>
     ELSE IF r.rev = NoRev THEN /\ Reject(t, "noroot")
                                /\ UNCHANGED <<lastDone, skipCount>>
     ELSE IF RevGate(r.rev, t.evt.rev)
          THEN /\ Resolve(t)
               /\ lastDone' = [lastDone EXCEPT ![t.did] = t.evt]
               /\ skipCount' = [skipCount EXCEPT ![t.evt.seq] = @ + 1]
          ELSE /\ Step(t, [t EXCEPT !.pc = "steps", !.pending = TxnSteps,
                                    !.w = r])
               /\ UNCHANGED <<firstError, nfailed, completed, lastDone,
                              skipCount>>
  /\ UNCHANGED <<envVars, orchVars, queue, nextTid, repo, acct, keyGen,
                 applyCount, runError, faults, crashes>>

\* the effect of one of the calls on the transaction's view of the store
StepEffect(w, s, evt, now) ==
  LET writes == ParseWrites(evt) IN
  CASE s = "applyCommit" -> ApplyCommit(w, evt)
    [] s = "indexWrites" -> IndexWrites(w, writes, evt.rev)
    [] s = "deref" -> DeleteDereferencedBlobs(w, writes)
    [] s = "upsert" -> UpsertBlobs(w, writes, now, evt.rev)
    [] s = "processWriteBlobs" ->
         UpsertBlobs(DeleteDereferencedBlobs(w, writes), writes, now, evt.rev)

\* within trackBlobs the upserts follow the awaited deleteDereferencedBlobs;
\* the members of Promise.all are otherwise unordered
StepEnabled(t, s) ==
  /\ s \in t.pending
  /\ s = "upsert" => "deref" \notin t.pending

TxnStep(t, s) ==
  /\ TasksMayRun
  /\ t.pc = "steps"
  /\ StepEnabled(t, s)
  /\ Step(t, [t EXCEPT !.pending = @ \ {s},
                       !.w = StepEffect(t.w, s, t.evt, t.tid)])
  /\ UNCHANGED <<envVars, orchVars, queue, nextTid, storeVars, firstError,
                 nfailed, runError, faults, crashes, completed>>

\* the transaction commits once every call has resolved
TxnCommit(t) ==
  /\ TasksMayRun
  /\ t.pc = "steps"
  /\ t.pending = {}
  /\ repo' = [repo EXCEPT ![t.did] = t.w]
  /\ applyCount' = [applyCount EXCEPT ![t.evt.seq] = @ + 1]
  /\ lastDone' = [lastDone EXCEPT ![t.did] = t.evt]
  /\ Resolve(t)
  /\ UNCHANGED <<envVars, orchVars, queue, nextTid, acct, keyGen, skipCount,
                 runError, faults, crashes>>

\* what the store holds after a transaction that threw: the rollback
Rollback(r, w) == r

\* one of the calls rejects (I/O failure): the transaction rolls back
TxnFail(t) ==
  /\ TasksMayRun
  /\ t.pc = "steps"
  /\ faults < MaxFaults
  /\ faults' = faults + 1
  /\ repo' = [repo EXCEPT ![t.did] = Rollback(repo[t.did], t.w)]
  /\ Reject(t, "txn")
  /\ UNCHANGED <<envVars, orchVars, queue, nextTid, acct, keyGen, applyCount,
                 skipCount, lastDone, runError, crashes>>

RmDirectoryKeep(t) ==
  /\ TasksMayRun
  /\ t.kind = "delete" /\ t.pc = "begin"
  /\ Step(t, [t EXCEPT !.pc = "acct"])
  /\ UNCHANGED <<envVars, orchVars, queue, nextTid, storeVars, firstError,
                 nfailed, runError, faults, crashes, completed>>

\* processAccountEvt task: getLocation, rmIfExists(directory, true)
RmDirectory(t) ==
  /\ TasksMayRun
  /\ t.kind = "delete" /\ t.pc = "begin"
  /\ repo' = [repo EXCEPT ![t.did] = NoRepo]
  /\ lastDone' = [lastDone EXCEPT ![t.did] = NoEvt]
  /\ Step(t, [t EXCEPT !.pc = "acct"])
  /\ UNCHANGED <<envVars, orchVars, queue, nextTid, acct, keyGen, applyCount,
                 skipCount, firstError, nfailed, runError, faults, crashes,
                 completed>>

\* processAccountEvt task: accountManager.deleteAccount(did)
DeleteAccount(t) ==
  /\ TasksMayRun
  /\ t.kind = "delete" /\ t.pc = "acct"
  /\ acct' = [acct EXCEPT ![t.did] = FALSE]
  /\ Resolve(t)
  /\ UNCHANGED <<envVars, orchVars, queue, nextTid, repo, keyGen, applyCount,
                 skipCount, lastDone, runError, faults, crashes>>

\* rmIfExists rejects (I/O failure)
RmFail(t) ==
  /\ TasksMayRun
  /\ t.kind = "delete" /\ t.pc = "begin"
  /\ faults < MaxFaults
  /\ faults' = faults + 1
  /\ Reject(t, "io")
  /\ UNCHANGED <<envVars, orchVars, queue, nextTid, storeVars, runError,
                 crashes>>

\* ------------------------------------------------------- crash and restart
\* the process dies: queues and in-flight transactions are lost, the stores
\* on disk and the cursor the run exposed remain
Crash ==
  /\ pc \notin {"Done", "Crashed"}
  /\ crashes < MaxCrashes
  /\ crashes' = crashes + 1
  /\ pc' = "Crashed"
  /\ queue' = [d \in Dids |-> <<>>]
  /\ running' = {}
  /\ page' = <<>>
  /\ pos' = 1
  /\ UNCHANGED <<envVars, startCursor, cursor, done, nextTid, storeVars,
                 firstError, nfailed, runError, faults, completed>>

\* new Recoverer(ctx, { cursor: c, concurrency }) and run()
Restart(c) ==
  /\ pc = "Crashed"
  /\ cursor' = c
  /\ startCursor' = c
  /\ pc' = "Loading"
  /\ done' = FALSE
  /\ firstError' = NoError
  /\ runError' = NoError
  /\ nfailed' = 0
  /\ completed' = {}
  /\ UNCHANGED <<envVars, page, pos, queue, running, nextTid, storeVars,
                 faults, crashes>>

\* ------------------------------------------------------------ specifications
TaskNext ==
  \/ \E d \in Dids : StartTask(d)
  \/ \E t \in running : BeginCommit(t)
  \/ \E t \in running : CreateRepo(t)
  \/ \E t \in running : TxnBegin(t)
  \/ \E t \in running : \E s \in TxnSteps \cup GenesisSteps : TxnStep(t, s)
  \/ \E t \in running : TxnCommit(t)
  \/ \E t \in running : TxnFail(t)
  \/ \E t \in running : RmDirectory(t)
  \/ \E t \in running : DeleteAccount(t)
  \/ \E t \in running : RmFail(t)

Next ==
  \/ Fetch
  \/ Dispatch
  \/ EndPage
  \/ Drain
  \/ Flush
  \/ TaskNext

Spec == Init /\ [][Next]_vars

NextCrash ==
  \/ Next
  \/ Crash
  \/ \E c \in 0..cursor : Restart(c)

SpecCrash == Init /\ [][NextCrash]_vars

\* a Recoverer constructed with any cursor into the log
InitAnyCursor ==
  /\ log \in Logs
  /\ inclusive \in BOOLEAN
  /\ concurrency \in 1..MaxConcurrency
  /\ startCursor \in 0..Len(log)
  /\ cursor = startCursor
  /\ pc = "Loading"
  /\ page = <<>>
  /\ pos = 1
  /\ done = FALSE
  /\ queue = [d \in Dids |-> <<>>]
  /\ running = {}
  /\ nextTid = 1
  /\ repo = [d \in Dids |-> NoRepo]
  /\ acct = [d \in Dids |-> TRUE]
  /\ keyGen = [d \in Dids |-> 0]
  /\ firstError = NoError
  /\ nfailed = 0
  /\ runError = NoError
  /\ faults = 0
  /\ crashes = 0
  /\ applyCount = [n \in Seqs |-> 0]
  /\ skipCount = [n \in Seqs |-> 0]
  /\ completed = {}
  /\ lastDone = [d \in Dids |-> NoEvt]

\* the event loop runs every continuation that is ready, and pending I/O
\* completes: some enabled step is eventually taken, and a task that is ready
\* at every await of run() is not starved by it
SpecFair ==
  InitAnyCursor /\ [][Next]_vars /\ WF_vars(Next) /\ SF_vars(TaskNext)

TypeOK ==
  /\ pc \in {"Loading", "Dispatching", "Draining", "Flushing", "Done",
             "Failed", "Crashed"}
  /\ cursor \in 0..MaxSeq
  /\ \A t \in running : t.did \in Dids

\* ================================================================== claims

AllQueued == UNION { { queue[d][i] : i \in 1..Len(queue[d]) } : d \in Dids }

\* C2: per-account ordering and mutual exclusion.  No two tasks of one
\* account are in flight, and while a task of an account is in flight every
\* other loaded task of that account was enqueued after it: the task of the
\* earlier event has completed before the task of the later event begins.
PerAccountOrdering ==
  \A t \in running :
    /\ \A u \in running : u.did = t.did => u = t
    /\ \A u \in AllQueued : u.did = t.did => u.tid > t.tid

\* C2 witness: a task of an account runs while a later task of the same
\* account waits and a task of the other account is in flight too.
PerAccountOrderingWitness ==
  \E t \in running, v \in running :
    /\ t.did # v.did
    /\ queue[t.key] # <<>>
    /\ Head(queue[t.key]).did = t.did
    /\ t.evt.rev < Head(queue[t.key]).evt.rev

\* C3: the number of distinct accounts with a running task never exceeds
\* the concurrency limit the Recoverer was constructed with.
ConcurrencyBound ==
  Cardinality({ t.did : t \in running }) <= concurrency

\* C3 witness: the ceiling is reached and keeps an idle account's task waiting.
ConcurrencyBoundWitness ==
  /\ Cardinality(running) = concurrency
  /\ \E d \in Dids : queue[d] # <<>> /\ ~KeyRunning(running, d)

\* the same commit event, whatever its sequence number
SameCommit(e, f) ==
  /\ e.type = "commit" /\ f.type = "commit"
  /\ e.did = f.did /\ e.rev = f.rev /\ e.since = f.since
  /\ e.ops = f.ops /\ e.blocks = f.blocks /\ e.undecodable = f.undecodable

\* C1: idempotent replay.  While the task of a commit event runs directly
\* after a task of the same commit event succeeded for the account, it is
\* skipped: the account's store (revision, blocks, index, blob rows) stays
\* as it is, nothing is applied, and the task raises no error.
IdempotentReplay ==
  [][\A t \in running :
       (t.kind = "commit" /\ SameCommit(t.evt, lastDone[t.did])) =>
         /\ repo'[t.did] = repo[t.did]
         /\ applyCount'[t.evt.seq] = applyCount[t.evt.seq]
         /\ (t \notin running' => nfailed' = nfailed)]_vars

\* C1 witness: a commit event was applied once and its second application
\* was skipped by the revision gate, leaving the store at that revision.
IdempotentReplayWitness ==
  \E n \in 1..Len(log), m \in 1..Len(log) :
    /\ SameCommit(log[n], log[m])
    /\ applyCount[n] = 1
    /\ skipCount[m] >= 1
    /\ lastDone[log[m].did] = log[m]
    /\ repo[log[m].did].rev = log[m].rev
    /\ repo[log[m].did].recordBlob # {}

\* C4 as claimed: the number of loaded (queued + running) tasks never
\* exceeds the high-water mark.
BackpressureBound == Loaded <= HighWater

\* C4 as amended: the number of loaded tasks never exceeds the low-water
\* mark plus one page, and a page is fetched only when the loaded count has
\* fallen to the low-water mark.
BackpressureAmended ==
  /\ Loaded <= LowWater + Limit
  /\ pc = "Loading" => Loaded <= LowWater

\* C4 witness: a whole page was dispatched on top of the tasks still loaded
\* when the fetch resumed.
BackpressureWitness ==
  /\ pc \in {"Dispatching", "Draining"}
  /\ Loaded = LowWater + Limit

CommitsOf(d) == { n \in 1..Len(log) : log[n].type = "commit" /\ log[n].did = d }
DeletedInLog(d) == \E n \in 1..Len(log) : TaskKind(log[n]) = "delete"
                                          /\ log[n].did = d

\* the account's first commit event is a genesis commit (since = null)
HasGenesis(d) ==
  /\ CommitsOf(d) # {}
  /\ log[CHOOSE n \in CommitsOf(d) : \A m \in CommitsOf(d) : n <= m].since = Null

GenesisRev(d) ==
  log[CHOOSE n \in CommitsOf(d) : \A m \in CommitsOf(d) : n <= m].rev

Ended == pc \in {"Done", "Failed"}

\* C5: genesis correctness.  Once recovery of the whole log has ended (no
\* I/O failure injected, the run that ended started at cursor 0, possibly
\* after a crash), every account whose genesis commit reached repository
\* creation and that the log does not delete has one repository whose first
\* stored revision is the genesis event's revision, and one signing identity.
GenesisCorrect ==
  \A d \in Dids :
    (Ended /\ faults = 0 /\ startCursor = 0 /\ HasGenesis(d)
       /\ ~DeletedInLog(d) /\ keyGen[d] >= 1) =>
      /\ repo[d].exists
      /\ repo[d].firstRev = GenesisRev(d)
      /\ keyGen[d] = 1

\* ---- the outcome of an uninterrupted run: the tasks one after the other
TaskFails(r, evt) ==
  /\ evt.type = "commit"
  /\ \/ ParseThrows(evt)
     \/ /\ ~(evt.since = Null /\ ~r.exists)
        /\ ~r.exists \/ r.rev = NoRev

TaskResult(r, evt) ==
  IF TaskKind(evt) = "delete" THEN NoRepo
  ELSE IF TaskKind(evt) = "none" \/ TaskFails(r, evt) THEN r
  ELSE IF evt.since = Null /\ ~r.exists
  THEN StepEffect(StepEffect(StepEffect(CreatedRepo(1),
         "applyCommit", evt, evt.seq), "indexWrites", evt, evt.seq),
         "processWriteBlobs", evt, evt.seq)
  ELSE IF RevGate(r.rev, evt.rev) THEN r
  ELSE StepEffect(StepEffect(StepEffect(StepEffect(r,
         "applyCommit", evt, evt.seq), "indexWrites", evt, evt.seq),
         "deref", evt, evt.seq), "upsert", evt, evt.seq)

RECURSIVE Replay(_, _)
Replay(st, n) ==
  IF n > Len(log) THEN st
  ELSE LET e == log[n] IN
       Replay([stores |-> [st.stores EXCEPT ![e.did] = TaskResult(@, e)],
               ok |-> st.ok /\ ~TaskFails(st.stores[e.did], e)], n + 1)

Uninterrupted == Replay([stores |-> [d \in Dids |-> NoRepo], ok |-> TRUE], 1)

\* what a repository holds, without the key and the timestamps
View(r) ==
  [exists |-> r.exists, rev |-> r.rev, blocks |-> r.blocks,
   index |-> r.index, recordBlob |-> r.recordBlob,
   blobs |-> { b \in Blobs : r.blob[b] # 0 }]

\* C6: resumability.  On a log an uninterrupted run completes on, with no
\* I/O failure injected, a run restarted after a crash from the cursor the
\* crashed run exposed or an earlier one ends in Done, no commit has mutated
\* a repository twice, and every account is in the state an uninterrupted
\* run leaves it in.
Resumable ==
  (Ended /\ crashes >= 1 /\ faults = 0 /\ Uninterrupted.ok) =>
    /\ pc = "Done"
    /\ \A n \in Seqs : applyCount[n] <= 1
    /\ \A d \in Dids : View(repo[d]) = View(Uninterrupted.stores[d])

\* an uninterrupted run does end in that state
UninterruptedFinal ==
  (pc = "Done" /\ crashes = 0) =>
    /\ Uninterrupted.ok
    /\ \A d \in Dids : View(repo[d]) = View(Uninterrupted.stores[d])

\* C7: atomic commit application.  In every state, also after a failed
\* transaction and after genesis, the blocks, the record index
\* and the blob rows of each store are those of the same commit: none of the
\* three is stored without the other two.
AtomicCommit ==
  \A d \in Dids :
    /\ repo[d].indexedRev = repo[d].rev
    /\ repo[d].blobRev = repo[d].rev

\* C7 witness: a transaction that had written the commit's blocks but not
\* yet its index failed, and the store shows the previous commit only.
AtomicCommitWitness ==
  /\ firstError.cause = "txn"
  /\ "applyCommit" \notin firstError.pending
  /\ "indexWrites" \in firstError.pending
  /\ repo[firstError.did].exists
  /\ repo[firstError.did].rev = 1
  /\ repo[firstError.did].indexedRev = 1

CursorFullyProcessed ==
  \A n \in 1..Len(log) :
    (startCursor < n /\ n <= cursor /\ TaskKind(log[n]) # "none") =>
      n \in completed

\* ---- the expected outcome of a replay, from the events alone
Survives(d) ==
  /\ CommitsOf(d) # {}
  /\ \A n \in 1..Len(log) :
       (TaskKind(log[n]) = "delete" /\ log[n].did = d) =>
         \E m \in CommitsOf(d) : m > n

\* the account's commit events after its last deletion
LiveCommits(d) ==
  { n \in CommitsOf(d) :
      \A m \in 1..Len(log) :
        (TaskKind(log[m]) = "delete" /\ log[m].did = d) => m < n }

Ascending ==
  \A d \in Dids : \A n \in CommitsOf(d), m \in CommitsOf(d) :
    n < m => log[n].rev < log[m].rev

WellFormed ==
  \A n \in 1..Len(log) : \A i \in 1..Len(log[n].ops) :
    log[n].ops[i].action # "delete" =>
      /\ log[n].ops[i].cid \in log[n].blocks
      /\ log[n].ops[i].cid \notin log[n].undecodable

RECURSIVE OpsFold(_, _)
OpsFold(index, ops) ==
  IF ops = <<>> THEN index
  ELSE OpsFold([index EXCEPT ![Head(ops).path] =
                  IF Head(ops).action = "delete" THEN NoCid
                  ELSE Head(ops).cid], Tail(ops))

RECURSIVE ExpectedIndexFrom(_, _, _)
ExpectedIndexFrom(d, index, n) ==
  IF n > Len(log) THEN index
  ELSE ExpectedIndexFrom(d,
         IF n \in LiveCommits(d) THEN OpsFold(index, log[n].ops) ELSE index,
         n + 1)

ExpectedIndex(d) == ExpectedIndexFrom(d, EmptyIndex, 1)

LastRev(d) ==
  log[CHOOSE n \in CommitsOf(d) : \A m \in CommitsOf(d) : m <= n].rev

\* C10: final state of a replay.  When run() is Done on a well-formed log
\* with ascending revisions per account, every surviving account has a
\* repository at the revision of its last commit event, whose index is the
\* result of the events' operations in log order and whose blob association
\* rows are exactly those of the records in the index.
FinalState ==
  (pc = "Done" /\ Ascending /\ WellFormed) =>
    \A d \in Dids : Survives(d) =>
      /\ repo[d].exists
      /\ repo[d].rev = LastRev(d)
      /\ repo[d].index = ExpectedIndex(d)
      /\ repo[d].recordBlob =
           { x \in Blobs \X Paths :
               /\ repo[d].index[x[2]] # NoCid
               /\ x[1] \in RecordBlobs(repo[d].index[x[2]]) }

\* C10 witness: the run is Done and a record that one commit created with a
\* blob was deleted by a later commit of the account.
FinalStateWitness ==
  /\ pc = "Done" /\ Ascending /\ WellFormed
  /\ \E d \in Dids, n \in Seqs, m \in Seqs, p \in Paths :
       /\ n < m /\ m <= Len(log)
       /\ log[n].did = d /\ log[m].did = d
       /\ applyCount[n] = 1 /\ applyCount[m] = 1
       /\ \E i \in 1..Len(log[n].ops) :
            /\ log[n].ops[i].path = p
            /\ RecordBlobs(log[n].ops[i].cid) # {}
       /\ \E i \in 1..Len(log[m].ops) :
            log[m].ops[i] = Op("delete", p, NoCid)
       /\ repo[d].exists
       /\ repo[d].index[p] = NoCid
       /\ repo[d].recordBlob = {}

\* C11: blob upsert idempotence.  When trackBlobs has run for a write set
\* and the next commit of the account carries the same write set, the second
\* run leaves the blob association rows and the blob metadata rows (with
\* their createdAt) exactly as the first left them when its transaction
\* commits.
BlobUpsertIdempotent ==
  [][\A t \in running :
       (/\ t.pc = "steps" /\ t.pending = {} /\ ~t.genesis
        /\ applyCount'[t.evt.seq] = applyCount[t.evt.seq] + 1
        /\ lastDone[t.did].type = "commit"
        /\ applyCount[lastDone[t.did].seq] >= 1
        /\ ParseWrites(t.evt) = ParseWrites(lastDone[t.did])) =>
         /\ repo'[t.did].recordBlob = repo[t.did].recordBlob
         /\ repo'[t.did].blob = repo[t.did].blob]_vars

\* C11 witness: two successive commits with the same blob-carrying write set
\* were both applied; the metadata rows still carry the first run's stamp.
BlobUpsertIdempotentWitness ==
  \E n \in Seqs, m \in Seqs :
    /\ n < m /\ m <= Len(log)
    /\ log[n].type = "commit" /\ log[n].since # Null
    /\ log[m].did = log[n].did
    /\ ParseWrites(log[n]) = ParseWrites(log[m])
    /\ WriteBlobs(ParseWrites(log[n])) = {"b1", "b2"}
    /\ applyCount[n] = 1 /\ applyCount[m] = 1
    /\ lastDone[log[m].did] = log[m]
    /\ Cardinality(repo[log[m].did].recordBlob) = 2
    /\ \A b \in Blobs : repo[log[m].did].blob[b] \notin {0}
    /\ \E b \in Blobs : repo[log[m].did].blob[b] < m

LastIsDeletion(d) ==
  /\ DeletedInLog(d)
  /\ ~Survives(d)

\* C12: account deletion.  Only account events with status deleted get a
\* deletion task, enqueued under the account's key.  When the task completes
\* the account has no storage location and no account-manager record; it
\* raises no error unless an I/O failure is injected, also when the account
\* has no store.  When the run is Done, an account whose last event is a
\* deletion has no repository and no account record.
AccountDeletion ==
  /\ [](\A t \in running \cup AllQueued :
          t.kind = "delete" => /\ t.key = t.evt.did
                               /\ t.evt.type = "account"
                               /\ t.evt.status = "deleted")
  /\ [](pc = "Done" =>
          \A d \in Dids : LastIsDeletion(d) => ~repo[d].exists /\ ~acct[d])
  /\ [][\A t \in running :
          (t.kind = "delete" /\ t \notin running' /\ faults' = faults) =>
            /\ nfailed' = nfailed
            /\ ~repo'[t.did].exists
            /\ t.pc = "acct" => ~acct'[t.did]]_vars

\* C12 witness: the run is Done; one account had a commit applied and was
\* then deleted, or was deleted without ever having a store.
AccountDeletionWitness ==
  /\ pc = "Done"
  /\ \E d \in Dids, n \in Seqs :
       /\ LastIsDeletion(d)
       /\ n <= Len(log) /\ log[n].did = d /\ applyCount[n] = 1
       /\ ~repo[d].exists /\ ~acct[d]

\* C12 second case: the deletion task of an account that never had a commit
\* event has completed without an error.
AccountDeletionNoStore ==
  \E n \in Seqs :
    /\ n <= Len(log) /\ TaskKind(log[n]) = "delete"
    /\ \A m \in CommitsOf(log[n].did) : m > n
    /\ n \in completed /\ nfailed = 0
    /\ ~acct[log[n].did]

\* C13: failure isolation.  The step in which a task fails removes that
\* task only: every other running task stays in flight as it was, the queues
\* and the other accounts' stores are untouched.  The run ends only when
\* nothing is loaded, so each of them has run to its own completion, and no
\* store ever holds part of a transaction.
FailureIsolation ==
  /\ [][nfailed' > nfailed =>
          /\ running' \subseteq running
          /\ Cardinality(running \ running') = 1
          /\ queue' = queue
          /\ \A t \in running' : repo'[t.did] = repo[t.did]]_vars
  /\ [](Ended => Loaded = 0)
  /\ [](\A d \in Dids : repo[d].indexedRev = repo[d].rev)

\* C13 witness: the run ended Failed, and the commit of another account,
\* whose task was in flight when the first task failed, was applied.
FailureIsolationWitness ==
  /\ pc = "Failed"
  /\ \E n \in firstError.others :
       /\ log[n].did # firstError.did
       /\ applyCount[n] = 1
       /\ repo[log[n].did].rev = log[n].rev

\* C14: cursor advance.  The cursor changes only at the end of
\* loadNextPage, when every event of the (non-empty) fetched page that gets
\* a task has been enqueued; it is then the sequence number of the page's
\* last event.  It never decreases, and an empty page leaves it unchanged.
CursorAdvance ==
  [][/\ cursor' >= cursor
     /\ cursor' # cursor =>
          /\ pc = "Dispatching" /\ pc' = "Draining"
          /\ page # <<>>
          /\ cursor' = page[Len(page)].seq
          /\ \A i \in 1..Len(page) :
               TaskKind(page[i]) # "none" =>
                 \E t \in running \cup AllQueued : t.evt = page[i]
     /\ (pc = "Dispatching" /\ pc' = "Draining" /\ page = <<>>) =>
          cursor' = cursor]_vars

\* C14 witness: the cursor has advanced past the first page while tasks of
\* that page are still waiting.
CursorAdvanceWitness ==
  /\ pc = "Draining"
  /\ cursor = Limit
  /\ \E t \in AllQueued : t.evt.seq <= cursor
  /\ completed = {}

\* every event after the start cursor that gets a task has had it completed
AllCompleted ==
  \A n \in 1..Len(log) :
    (n > startCursor /\ TaskKind(log[n]) # "none") => n \in completed

\* C15 as claimed: with any event source the contract allows (events with
\* sequence >= the cursor), run() on a finite log whose tasks all succeed
\* eventually reaches Done. At Done every dispatched task has completed.
Termination ==
  /\ <>(pc = "Done" \/ nfailed >= 1)
  /\ [](pc = "Done" => done /\ Loaded = 0 /\ AllCompleted)

\* C15 restricted to exclusive sources: with an event source that returns only events after the
\* cursor, run() on a finite log whose tasks all succeed eventually reaches
\* Done, having fetched an empty page; at that point every dispatched task
\* has completed.
TerminationExclusive ==
  /\ ~inclusive => <>(pc = "Done" \/ nfailed >= 1)
  /\ [](pc = "Done" => /\ done /\ Loaded = 0
                       /\ ~inclusive => AllCompleted)

\* an exclusive-source run over several pages has reached Done with every task
\* completed.
TerminationWitness ==
  /\ pc = "Done" /\ ~inclusive
  /\ startCursor = 0 /\ Len(log) > Limit
  /\ Cardinality(completed) >= 3
  /\ AllCompleted

\* the calls of a commit application that mutate block storage and the
\* record index
MutationSteps == {"applyCommit", "indexWrites"}

\* the calls that reconcile blobs
BlobSteps == {"deref", "upsert", "processWriteBlobs"}

\* the calls of a commit application that have resolved
DoneSteps(t) == (IF t.genesis THEN GenesisSteps ELSE TxnSteps) \ t.pending

\* C16: within one commit application the dereference of blobs and the blob
\* upserts are performed only after that commit's block-storage write and
\* record-index update: no blob step is done while a mutation is pending.
BlobReconciliationOrdering ==
  \A t \in running :
    (t.pc = "steps" /\ DoneSteps(t) \cap BlobSteps # {})
      => t.pending \cap MutationSteps = {}

\* a create or update op without a content hash, or whose block is not in
\* the event's bundle
DanglingOp(evt, op) ==
  /\ op.action # "delete"
  /\ op.cid = NoCid \/ op.cid \notin evt.blocks

Dangling(evt) == \E i \in 1..Len(evt.ops) : DanglingOp(evt, evt.ops[i])

\* the index after the ops of evt, in their order, with dangling ops left out
RECURSIVE TolerantFold(_, _, _)
TolerantFold(index, evt, i) ==
  IF i > Len(evt.ops) THEN index
  ELSE LET op == evt.ops[i] IN
       TolerantFold(
         IF op.action = "delete" THEN [index EXCEPT ![op.path] = NoCid]
         ELSE IF DanglingOp(evt, op) THEN index
         ELSE [index EXCEPT ![op.path] = op.cid],
         evt, i + 1)

\* C17: dangling reference tolerance.  A commit event with a create/update op
\* whose block is missing (or that has no content hash), all other blocks
\* being decodable, does not fail in parsing; when its transaction commits,
\* the stored revision is the event's revision and the record index is the
\* prior index with the remaining ops applied in their order, deletes
\* included, and the task completes.
DanglingTolerance ==
  [][\A t \in running :
       (t.kind = "commit" /\ Dangling(t.evt) /\ t.evt.undecodable = {}) =>
         /\ (t.pc = "begin" /\ t \notin running') =>
              \E u \in running' : u.tid = t.tid /\ u.pc \in {"create", "txn"}
         /\ (t.pc = "steps" /\ t.pending = {}
             /\ applyCount'[t.evt.seq] = applyCount[t.evt.seq] + 1) =>
              /\ repo'[t.did].rev = t.evt.rev
              /\ repo'[t.did].index =
                   TolerantFold(repo[t.did].index, t.evt, 1)
              /\ t.evt.seq \in completed'
              /\ nfailed' = nfailed]_vars

\* C17 witness: both commits of the malformed log's account A were applied,
\* one with a missing block and one with an op without a content hash.
DanglingToleranceWitness ==
  /\ Len(log) >= 2 /\ log[1].type = "commit" /\ log[2].type = "commit"
  /\ Dangling(log[1]) /\ Dangling(log[2])
  /\ applyCount[1] = 1 /\ applyCount[2] = 1
  /\ repo["A"].rev = 2
  /\ repo["A"].index = [X |-> NoCid, Y |-> NoCid]
  /\ nfailed = 0

\* a create or update op whose block is in the bundle but cannot be decoded
UndecodableOp(evt, op) ==
  /\ op.action # "delete"
  /\ op.cid # NoCid /\ op.cid \in evt.blocks
  /\ op.cid \in evt.undecodable

\* C18: unparseable block tolerance.  A commit event with an op whose block is
\* present but cannot be decoded does not fail its task: parsing drops that op
\* and the task goes on to apply the commit.
UnparseableTolerance ==
  [][\A t \in running :
       (/\ t.kind = "commit" /\ t.pc = "begin"
        /\ \E i \in 1..Len(t.evt.ops) : UndecodableOp(t.evt, t.evt.ops[i])
        /\ t \notin running') =>
         /\ nfailed' = nfailed
         /\ \E u \in running' : u.tid = t.tid /\ u.pc \in {"create", "txn"}]_vars

\* C19: the stored revision is monotonic.  While an account's repository
\* exists its stored revision never decreases; a commit event is applied only
\* when its revision is strictly greater than the stored one; a commit event
\* whose revision is not greater changes nothing in the store, completes and
\* raises no error.
RevisionMonotonic ==
  [][/\ \A d \in Dids :
          (repo[d].exists /\ repo'[d].exists) => repo'[d].rev >= repo[d].rev
     /\ \A t \in running :
          t.kind = "commit" =>
            /\ applyCount'[t.evt.seq] = applyCount[t.evt.seq] + 1 =>
                 /\ t.evt.rev > repo[t.did].rev
                 /\ repo'[t.did].rev = t.evt.rev
            /\ (/\ t.pc = "txn" /\ t \notin running'
                /\ repo[t.did].exists /\ repo[t.did].rev # NoRev
                /\ t.evt.rev <= repo[t.did].rev) =>
                 /\ repo' = repo
                 /\ applyCount' = applyCount
                 /\ nfailed' = nfailed
                 /\ t.evt.seq \in completed']_vars

\* C19 witness: the log with a duplicated genesis and an older revision was
\* replayed: events 2 and 3 were skipped, event 4 applied.
RevisionMonotonicWitness ==
  /\ Len(log) = 4 /\ log[2].type = "commit" /\ log[3].type = "commit"
  /\ log[2].rev = log[1].rev /\ log[3].rev < log[1].rev
  /\ applyCount[1] = 1 /\ skipCount[2] = 1 /\ skipCount[3] = 1
  /\ applyCount[2] = 0 /\ applyCount[3] = 0 /\ applyCount[4] = 1
  /\ repo["A"].rev = 3
  /\ nfailed = 0

\* sequence number of the last event handed to processEvent so far
LastDispatched ==
  IF pc = "Dispatching" /\ pos > 1 THEN page[pos - 1].seq ELSE cursor

\* the events after the start cursor, up to the last one dispatched, that
\* get a task
DispatchedSeqs ==
  { n \in 1..Len(log) :
      /\ n > startCursor /\ n <= LastDispatched
      /\ TaskKind(log[n]) # "none" }

\* C20: exactly-once, in-order dispatch within a run.  The tasks created so
\* far are one per commit or deleted-account event after the start cursor up
\* to the last event dispatched, and they were created in ascending sequence
\* order.
ExactlyOnceDispatch ==
  /\ nextTid - 1 = Cardinality(DispatchedSeqs)
  /\ \A t \in running \cup AllQueued :
       /\ t.evt.seq \in DispatchedSeqs
       /\ \A u \in running \cup AllQueued :
            t.tid < u.tid => t.evt.seq < u.evt.seq

\* with an event source that returns only events after the cursor, dispatch
\* is exactly-once and in order
ExactlyOnceDispatchExclusive == ~inclusive => ExactlyOnceDispatch

====
